---- MODULE Spec2Model ----
\* A model of epigen's generative engine (src/epigen/plink/genmodels.py):
\* FixedParams, BinomialModel, NormalModel, the prospective phenotype
\* generators, the mean maps and the two factories.
\*
\* Probabilities are exact fractions: a frequency or a penetrance p is the
\* integer p * Unit, a joint frequency the integer f * Unit^4, and a vector
\* normalised by the code is kept as [num |-> <<...>>, den |-> d] (entry i is
\* num[i] / den), so that float division is modelled without rounding and a
\* zero denominator is the ZeroDivisionError Python raises.
EXTENDS Integers, Sequences, FiniteSets, TLC

\* ------------------------------------------------------------------ bounds
Unit == 4          \* resolution of the probability grid
MaxCases == 3      \* sample_size[0] ranges over 0..MaxCases
MaxControls == 2   \* sample_size[1] ranges over 0..MaxControls
MaxArity == 3      \* a mean map's input has 0..MaxArity entries

\* Python's None.
None == "None"

\* ----------------------------------------------------------------- helpers
RECURSIVE SeqSum(_)
SeqSum(s) == IF s = <<>> THEN 0 ELSE Head(s) + SeqSum(Tail(s))

Min(a, b) == IF a < b THEN a ELSE b

\* Python's [ x ] * n
Repeat(x, n) == [i \in 1..n |-> x]

\* Python's zip( a, b ) followed by the product of each pair.
ZipProd(a, b) == [i \in 1..Min(Len(a), Len(b)) |-> a[i] * b[i]]

\* All sequences over S of length 0..n.
SeqsUpTo(S, n) == UNION {[1..k -> S] : k \in 0..n}

\* Outcomes of a call: a value, Python's None, or a raised exception.
Value(v) == [kind |-> "value", val |-> v]
NoneResult == [kind |-> "none", val |-> None]
Raise(e) == [kind |-> "raise", val |-> e]

\* Values random.random( ) yields in the model: 0 and about a half, in [0, 1).
RandomValues == {0, Unit \div 2}

\* ---------------------------------------------------- external collaborators
\* epigen.plink.util.joint_maf: the 3x3 table of joint genotype frequencies
\* of two loci, row-major, summing to 1 (Unit^4 here).  Without LD the loci
\* are independent and each follows Hardy-Weinberg proportions.
HardyWeinberg(p) == << (Unit - p) * (Unit - p), 2 * p * (Unit - p), p * p >>

joint_maf(maf, ld) ==
    [i \in 1..9 |-> HardyWeinberg(maf[1])[((i - 1) \div 3) + 1]
                    * HardyWeinberg(maf[2])[((i - 1) % 3) + 1]]

\* epigen.plink.util.sample_categorical: the outcomes a draw from a
\* probability vector can have, each an index pair (snp1, snp2).
sample_categorical(p) ==
    {<<(i - 1) \div 3, (i - 1) % 3>> : i \in {j \in 1..Len(p.num) : p.num[j] > 0}}

\* -------------------------------------------------------------- FixedParams
\* get_maf with the two values random.random( ) returned (used only when
\* sample_maf is set).
get_maf(fp, r1, r2) ==
    IF ~fp.sample_maf
    THEN joint_maf(fp.maf, fp.ld)
    ELSE LET start == fp.maf[1]
             end == fp.maf[2] - start
             m1 == start + (end * r1) \div Unit
             m2 == start + (end * r2) \div Unit
         IN joint_maf(<<m1, m2>>, fp.ld)

\* The number of random.random( ) calls one get_maf call makes.
get_maf_draws(fp) == IF fp.sample_maf THEN 2 ELSE 0

num_samples(fp) == fp.sample_size[1]

num_cases(fp) == fp.sample_size[1]

num_controls(fp) == fp.sample_size[2]

\* ------------------------------------------------------------ BinomialModel
generate_phenotype_controls_first(fp) ==
    Repeat(0, num_controls(fp)) \o Repeat(1, num_cases(fp))

generate_phenotype(fp) == Repeat(1, num_cases(fp)) \o Repeat(0, num_controls(fp))

\* The phenotype argument is not read by the code.
joint_prob(maf, penetrance, phenotype) ==
    LET geno_prob == ZipProd(penetrance, maf)
        geno_denom == SeqSum(geno_prob)
    IN IF Len(geno_prob) > 0 /\ geno_denom = 0
       THEN Raise("ZeroDivisionError")
       ELSE Value([num |-> geno_prob, den |-> geno_denom])

\* ---------------------------------------------------------------- NormalModel
\* normpdf is declared as normpdf(x, mean, sd), without self ...
normpdf_params == 3
\* ... and joint_prob calls it as self.normpdf( pheno, m, s ): self and three
\* arguments.
normpdf_call_args == 4

\* The Gaussian density of x under (mean, sd), kept as a term.
GaussianDensity(x, mean, sd) == <<"normpdf", x, mean, sd>>

normpdf_call(pheno, m, s) ==
    IF normpdf_call_args # normpdf_params
    THEN Raise("TypeError")
    ELSE Value(GaussianDensity(pheno, m, s))

Normal_joint_prob(mu, std, maf, pheno) ==
    LET n == Min(Len(mu), Min(Len(std), Len(maf)))
        calls == [i \in 1..n |-> normpdf_call(pheno, mu[i], std[i])]
    IN IF \E i \in 1..n : calls[i].kind = "raise"
       THEN Raise(calls[CHOOSE i \in 1..n : calls[i].kind = "raise"].val)
       ELSE Value([i \in 1..n |->
                      <<"div", <<"mul", calls[i].val, maf[i]>>, "geno_denom">>])

\* Unit^2 * Unit^8 times the variance sqrt( ) is applied to in
\* generate_phenotype: mu2 - mu**2 + std2.
Normal_total_variance(mu, std, maf) ==
    LET T == SeqSum(maf)
        m1 == SeqSum(ZipProd(mu, maf))
        m2 == SeqSum(ZipProd(ZipProd(mu, mu), maf))
        s2 == SeqSum(ZipProd(ZipProd(std, std), maf))
    IN T * m2 - m1 * m1 + T * s2

\* Values random.normalvariate yields in the model: with a positive standard
\* deviation any real can come out, with none the mean itself.
NormalVariates == {0, 1}

normalvariate(mu, sigma) == IF sigma = 0 THEN {mu} ELSE NormalVariates

\* ------------------------------------------------------------------ state
VARIABLES
    fixed_params,   \* FixedParams: maf, ld, sample_size, sample_maf
    penetrance,     \* BinomialParams.penetrance
    result,         \* the last finished call: op, args, kind, val
    pc,             \* "idle", or "loop" inside BinomialModel.generate_genotype
    phenotype,      \* generate_genotype's phenotype argument
    maf,            \* generate_genotype's local maf
    prob,           \* generate_genotype's local prob, with the get_maf call it came from
    snp1_list,
    snp2_list,
    handed,         \* what each sample_categorical call of the current call was given
    maf_calls,      \* get_maf calls made by the current generate_genotype call
    rand_draws      \* calls on the random source made by the current call

vars == <<fixed_params, penetrance, result, pc, phenotype, maf, prob,
          snp1_list, snp2_list, handed, maf_calls, rand_draws>>

config == <<fixed_params, penetrance>>
locals == <<phenotype, maf, prob, snp1_list, snp2_list, handed, maf_calls>>

\* Marginal frequency pairs (exact values, or the range when sample_maf).
MafPairs == {<<1, 1>>, <<1, 3>>}

\* Penetrance matrices: one with two states that can be cases, one with a
\* rare and a common case state, and the degenerate all-zero matrix.
Penetrances ==
    { <<0, 0, 0, 0, Unit, 0, 0, 0, 2>>,
      <<1, 0, 0, 0, 0, 0, 0, 0, 3>>,
      <<0, 0, 0, 0, 0, 0, 0, 0, 0>> }

NoLocals ==
    /\ phenotype = <<>>
    /\ maf = <<>>
    /\ prob = [src |-> 0, vecs |-> <<>>]
    /\ snp1_list = <<>>
    /\ snp2_list = <<>>
    /\ handed = <<>>
    /\ maf_calls = 0

ResetLocals ==
    /\ phenotype' = <<>>
    /\ maf' = <<>>
    /\ prob' = [src |-> 0, vecs |-> <<>>]
    /\ snp1_list' = <<>>
    /\ snp2_list' = <<>>
    /\ handed' = <<>>
    /\ maf_calls' = 0

Done(op, args, outcome) ==
    result' = [op |-> op, args |-> args, kind |-> outcome.kind, val |-> outcome.val]

Init ==
    /\ fixed_params \in [maf : MafPairs, ld : {None},
                         sample_size : (0..MaxCases) \X (0..MaxControls),
                         sample_maf : BOOLEAN]
    /\ penetrance \in Penetrances
    /\ result = [op |-> "init", args |-> <<>>, kind |-> "none", val |-> None]
    /\ pc = "idle"
    /\ NoLocals
    /\ rand_draws = 0

\* ------------------------------------------------- BinomialModel operations
Binomial_generate_phenotype ==
    /\ pc = "idle"
    /\ Done("BinomialModel.generate_phenotype", <<>>,
            Value(generate_phenotype(fixed_params)))
    /\ rand_draws' = 0
    /\ ResetLocals
    /\ UNCHANGED <<config, pc>>

Binomial_joint_prob ==
    /\ pc = "idle"
    /\ \E r1, r2 \in RandomValues, label \in {0, 1} :
          LET table == get_maf(fixed_params, r1, r2)
          IN Done("BinomialModel.joint_prob", <<table, penetrance, label>>,
                  joint_prob(table, penetrance, label))
    /\ rand_draws' = get_maf_draws(fixed_params)
    /\ ResetLocals
    /\ UNCHANGED <<config, pc>>

\* generate_genotype up to its loop: get_maf once, then the two posteriors.
Binomial_generate_genotype_begin ==
    /\ pc = "idle"
    /\ result.op = "BinomialModel.generate_phenotype"
    /\ \E r1, r2 \in RandomValues :
          LET table == get_maf(fixed_params, r1, r2)
              p1 == joint_prob(table, penetrance, 1)
              p0 == joint_prob(table, penetrance, 0)
          IN /\ maf' = table
             /\ IF p1.kind = "raise" \/ p0.kind = "raise"
                THEN /\ Done("BinomialModel.generate_genotype", <<result.val>>,
                             IF p1.kind = "raise" THEN p1 ELSE p0)
                     /\ prob' = [src |-> 0, vecs |-> <<>>]
                     /\ pc' = "idle"
                ELSE /\ prob' = [src |-> 1, vecs |-> <<p1.val, p0.val>>]
                     /\ pc' = "loop"
                     /\ UNCHANGED result
    /\ phenotype' = result.val
    /\ maf_calls' = 1
    /\ rand_draws' = get_maf_draws(fixed_params)
    /\ snp1_list' = <<>>
    /\ snp2_list' = <<>>
    /\ handed' = <<>>
    /\ UNCHANGED config

\* A loop body that asks get_maf again for every individual.
Binomial_generate_genotype_step_fresh ==
    /\ pc = "loop"
    /\ Len(snp1_list) < Len(phenotype)
    /\ \E r1, r2 \in RandomValues :
          LET table == get_maf(fixed_params, r1, r2)
              p1 == joint_prob(table, penetrance, 1)
              p0 == joint_prob(table, penetrance, 0)
              pheno == phenotype[Len(snp1_list) + 1]
              given == <<p1.val, p0.val>>[pheno + 1]
          IN /\ maf' = table
             /\ prob' = [src |-> maf_calls + 1, vecs |-> <<p1.val, p0.val>>]
             /\ \E snp \in sample_categorical(given) :
                   /\ snp1_list' = Append(snp1_list, snp[1])
                   /\ snp2_list' = Append(snp2_list, snp[2])
                   /\ handed' = Append(handed, [pheno |-> pheno, vec |-> given,
                                                src |-> maf_calls + 1, table |-> table,
                                                snp |-> snp])
    /\ maf_calls' = maf_calls + 1
    /\ rand_draws' = rand_draws + get_maf_draws(fixed_params) + 1
    /\ UNCHANGED <<config, result, pc, phenotype>>

\* One iteration of the loop: prob[ pheno ] goes to sample_categorical.
Binomial_generate_genotype_step ==
    /\ pc = "loop"
    /\ Len(snp1_list) < Len(phenotype)
    /\ LET pheno == phenotype[Len(snp1_list) + 1]
           given == prob.vecs[pheno + 1]
       IN \E snp \in sample_categorical(given) :
             /\ snp1_list' = Append(snp1_list, snp[1])
             /\ snp2_list' = Append(snp2_list, snp[2])
             /\ handed' = Append(handed, [pheno |-> pheno, vec |-> given,
                                          src |-> prob.src, table |-> maf,
                                          snp |-> snp])
    /\ rand_draws' = rand_draws + 1
    /\ UNCHANGED <<config, result, pc, phenotype, maf, prob, maf_calls>>

Binomial_generate_genotype_return ==
    /\ pc = "loop"
    /\ Len(snp1_list) = Len(phenotype)
    /\ Done("BinomialModel.generate_genotype", <<phenotype>>,
            Value(<<snp1_list, snp2_list>>))
    /\ pc' = "idle"
    /\ UNCHANGED <<config, locals, rand_draws>>

\* --------------------------------------------------- NormalModel operations
\* The continuous model's per-state means and the common standard deviation
\* get_model_and_params spreads over the nine states.
NormalMu == <<0, 1, 2, 1, 2, 3, 2, 3, 4>>
NormalStd == Repeat(1, 9)

\* NormalModel.generate_phenotype: num_samples( ) normal variates.  sqrt( )
\* fails on a negative variance, and the deviation it returns is zero exactly
\* when the variance is.
Normal_generate_phenotype ==
    /\ pc = "idle"
    /\ LET self_maf == joint_maf(fixed_params.maf, None)
           variance == Normal_total_variance(NormalMu, NormalStd, self_maf)
           mean == SeqSum(ZipProd(NormalMu, self_maf)) \div SeqSum(self_maf)
           n == num_samples(fixed_params)
       IN IF variance < 0
          THEN /\ Done("NormalModel.generate_phenotype", <<>>, Raise("ValueError"))
               /\ rand_draws' = 0
          ELSE /\ \E draws \in [1..n -> normalvariate(mean, variance)] :
                     Done("NormalModel.generate_phenotype", <<>>, Value(draws))
               /\ rand_draws' = n
    /\ ResetLocals
    /\ UNCHANGED <<config, pc>>

Normal_joint_prob_call ==
    /\ pc = "idle"
    /\ \E r1, r2 \in RandomValues, pheno \in NormalVariates :
          LET table == get_maf(fixed_params, r1, r2)
          IN Done("NormalModel.joint_prob", <<NormalMu, NormalStd, table, pheno>>,
                  Normal_joint_prob(NormalMu, NormalStd, table, pheno))
    /\ rand_draws' = get_maf_draws(fixed_params)
    /\ ResetLocals
    /\ UNCHANGED <<config, pc>>

\* NormalModel.generate_genotype: get_maf once, then joint_prob for the first
\* individual, whose exception ends the call.
Normal_generate_genotype ==
    /\ pc = "idle"
    /\ result.op = "NormalModel.generate_phenotype"
    /\ result.kind = "value"
    /\ \E r1, r2 \in RandomValues :
          LET table == get_maf(fixed_params, r1, r2)
              first == IF Len(result.val) = 0
                       THEN Value(<<>>)
                       ELSE Normal_joint_prob(NormalMu, NormalStd, table, result.val[1])
          IN /\ maf' = table
             /\ Done("NormalModel.generate_genotype", <<result.val>>,
                     IF first.kind = "raise" THEN first ELSE Value(<<<<>>, <<>>>>))
             \* only these two ways out exist: normpdf_call raises on the
             \* first individual, or there is no individual
             /\ first.kind = "raise" \/ Len(result.val) = 0
    /\ phenotype' = result.val
    /\ maf_calls' = 1
    /\ rand_draws' = get_maf_draws(fixed_params)
    /\ prob' = [src |-> 0, vecs |-> <<>>]
    /\ snp1_list' = <<>>
    /\ snp2_list' = <<>>
    /\ handed' = <<>>
    /\ UNCHANGED <<config, pc>>

\* ------------------------------------------------------------------ mean maps
\* The names genmodels.py binds at module level.
ModuleGlobals ==
    {"random", "exp", "log", "sqrt", "pi", "sample_categorical", "joint_maf",
     "FixedParams", "BinomialModel", "BinomialPhenoGenerator", "BinomialParams",
     "NormalModel", "NormalPhenoGenerator", "NormalParams", "GeneralMuMap",
     "AdditiveMuMap", "get_pheno_generator", "get_models", "get_links",
     "get_link_names", "get_link", "get_mean_values", "get_model_and_params"}

\* Reading a name that is neither local nor global.
LookupGlobal(name) ==
    IF name \in ModuleGlobals THEN Value(<<"global", name>>) ELSE Raise("NameError")

Contains(variants, x) == \E i \in 1..Len(variants) : variants[i] = x

GeneralMuMap_map_transposed(mu, variants) ==
    IF Contains(variants, 3) \/ Len(variants) # 2
    THEN NoneResult
    ELSE Value(mu[3 * variants[2] + variants[1] + 1])

GeneralMuMap_map(mu, variants) ==
    IF Contains(variants, 3) \/ Len(variants) # 2
    THEN NoneResult
    ELSE Value(mu[3 * variants[1] + variants[2] + 1])

\* The link functions, each named by what it computes.
get_links ==
    [name \in {"identity", "log", "exp", "logc", "odds", "logodds"} |->
        CASE name = "identity" -> "x"
          [] name = "log" -> "exp(x)"
          [] name = "exp" -> "log(x)"
          [] name = "logc" -> "1 - exp(x)"
          [] name = "odds" -> "x/(1+x)"
          [] name = "logodds" -> "1/(1+exp(-x))"]

get_link(link_str) ==
    IF link_str \in DOMAIN get_links THEN get_links[link_str] ELSE None

\* A link applied to a number; only the identity is computed, the others
\* stay terms.
ApplyLink(link, x) == IF link = "x" THEN x ELSE <<link, x>>

AdditiveMuMap_map(beta, link, variants) ==
    IF Contains(variants, 3) \/ Len(variants) # Len(beta)
    THEN NoneResult
    ELSE LET beta0 == LookupGlobal("beta0")
         IN IF beta0.kind = "raise"
            THEN beta0
            ELSE Value(ApplyLink(link, <<"add", beta0.val, SeqSum(ZipProd(variants, beta))>>))

\* --------------------------------------------------- phenotype generators
\* The interpreters the package can run under: they differ in p <= None.
PythonVersions == {2, 3}

BinomialPhenoGenerator_generate_pheno(mu, p, python) ==
    IF mu.kind = "raise" THEN mu
    ELSE IF mu.kind = "none"
         THEN IF python = 2 THEN Value(0) ELSE Raise("TypeError")
         ELSE Value(IF p <= mu.val THEN 1 ELSE 0)

NormalPhenoGenerator_generate_pheno(mu, variate) ==
    IF mu.kind = "raise" THEN mu
    ELSE IF mu.kind = "none"
         THEN Raise("TypeError")
         ELSE Value(variate)

\* ----------------------------------------------------------------- factories
get_pheno_generator_default_binomial(model, mu_map, dispersion) ==
    IF model = "normal"
    THEN Value([class |-> "NormalPhenoGenerator", mu_map |-> mu_map,
                dispersion |-> dispersion])
    ELSE Value([class |-> "BinomialPhenoGenerator", mu_map |-> mu_map])

get_pheno_generator(model, mu_map, dispersion) ==
    IF model = "normal"
    THEN Value([class |-> "NormalPhenoGenerator", mu_map |-> mu_map,
                dispersion |-> dispersion])
    ELSE IF model = "binomial"
         THEN Value([class |-> "BinomialPhenoGenerator", mu_map |-> mu_map])
         ELSE Raise("ValueError")

get_model_and_params(model, mu, std, maf_arg) ==
    IF model = "normal"
    THEN Value(<<[class |-> "NormalModel", mu |-> mu, std |-> Repeat(std, 9),
                  maf |-> joint_maf(maf_arg, None)],
                 [class |-> "NormalParams", mu |-> mu, std |-> Repeat(std, 9)]>>)
    ELSE IF model = "binomial"
         THEN Value(<<[class |-> "BinomialModel"],
                      [class |-> "BinomialParams", penetrance |-> mu]>>)
         ELSE Raise("ValueError")

\* ---------------------------------------------------- prospective operations
\* The lookup table of the mean maps in the model: distinct entries, so the
\* index that is read shows in the result.
MuTable == [i \in 1..9 |-> i - 1]

\* Coefficients and links of the additive maps in the model.
Betas == {<<1, 2>>}
LinkNames == {"identity", "log"}
Dispersions == {0, 1}

Variants == SeqsUpTo(0..3, MaxArity)

\* Keys given to the factories.
ModelKeys == {"normal", "binomial", "Binomial", "poisson", ""}

\* The mean maps a generator is built around, and what map( ) gives.
MuMaps == {[class |-> "GeneralMuMap", mu |-> MuTable]}
          \cup {[class |-> "AdditiveMuMap", beta |-> b, link |-> get_link(l)] :
                  b \in Betas, l \in LinkNames}

MuMap_map(mu_map, variants) ==
    IF mu_map.class = "GeneralMuMap"
    THEN GeneralMuMap_map(mu_map.mu, variants)
    ELSE AdditiveMuMap_map(mu_map.beta, mu_map.link, variants)

GeneralMuMap_call ==
    /\ pc = "idle"
    /\ \E variants \in Variants :
          Done("GeneralMuMap.map", <<MuTable, variants>>,
               GeneralMuMap_map(MuTable, variants))
    /\ rand_draws' = 0
    /\ ResetLocals
    /\ UNCHANGED <<config, pc>>

AdditiveMuMap_call ==
    /\ pc = "idle"
    /\ \E variants \in Variants, beta \in Betas, l \in LinkNames :
          Done("AdditiveMuMap.map", <<1, beta, l, variants>>,
               AdditiveMuMap_map(beta, get_link(l), variants))
    /\ rand_draws' = 0
    /\ ResetLocals
    /\ UNCHANGED <<config, pc>>

\* generate_pheno of the generator the factory has just returned.
Binomial_generate_pheno ==
    /\ pc = "idle"
    /\ result.op = "get_pheno_generator"
    /\ result.kind = "value"
    /\ result.val.class = "BinomialPhenoGenerator"
    /\ \E variants \in Variants, p \in RandomValues, python \in PythonVersions :
          LET mu == MuMap_map(result.val.mu_map, variants)
          IN /\ Done("BinomialPhenoGenerator.generate_pheno",
                     <<result.val.mu_map, variants>>,
                     BinomialPhenoGenerator_generate_pheno(mu, p, python))
             /\ rand_draws' = IF mu.kind = "raise" THEN 0 ELSE 1
    /\ ResetLocals
    /\ UNCHANGED <<config, pc>>

Normal_generate_pheno ==
    /\ pc = "idle"
    /\ result.op = "get_pheno_generator"
    /\ result.kind = "value"
    /\ result.val.class = "NormalPhenoGenerator"
    /\ \E variants \in Variants :
          LET mu == MuMap_map(result.val.mu_map, variants)
          IN /\ \E variate \in (IF mu.kind = "value"
                                THEN normalvariate(mu.val, result.val.dispersion)
                                ELSE {0}) :
                   Done("NormalPhenoGenerator.generate_pheno",
                        <<result.val.mu_map, result.val.dispersion, variants>>,
                        NormalPhenoGenerator_generate_pheno(mu, variate))
             /\ rand_draws' = IF mu.kind = "raise" THEN 0 ELSE 1
    /\ ResetLocals
    /\ UNCHANGED <<config, pc>>

get_pheno_generator_call ==
    /\ pc = "idle"
    /\ \E key \in ModelKeys, mu_map \in MuMaps, dispersion \in Dispersions :
          Done("get_pheno_generator", <<key, mu_map, dispersion>>,
               get_pheno_generator(key, mu_map, dispersion))
    /\ rand_draws' = 0
    /\ ResetLocals
    /\ UNCHANGED <<config, pc>>

get_model_and_params_call ==
    /\ pc = "idle"
    /\ \E key \in ModelKeys, std \in {1, 2} :
          Done("get_model_and_params", <<key, MuTable, std, fixed_params.maf>>,
               get_model_and_params(key, MuTable, std, fixed_params.maf))
    /\ rand_draws' = 0
    /\ ResetLocals
    /\ UNCHANGED <<config, pc>>

\* ------------------------------------------------------------ specifications
\* Retrospective sampling: phenotypes first, genotypes conditioned on them.
Next ==
    \/ Binomial_generate_phenotype
    \/ Binomial_joint_prob
    \/ Binomial_generate_genotype_begin
    \/ Binomial_generate_genotype_step
    \/ Binomial_generate_genotype_return
    \/ Normal_generate_phenotype
    \/ Normal_joint_prob_call
    \/ Normal_generate_genotype

Spec == Init /\ [][Next]_vars

\* Prospective sampling and the factories, for one dataset configuration.
InitProspective ==
    /\ Init
    /\ fixed_params.maf = <<1, 3>>
    /\ fixed_params.sample_size = <<1, 1>>
    /\ ~fixed_params.sample_maf
    /\ penetrance = <<1, 0, 0, 0, 0, 0, 0, 0, 3>>

NextProspective ==
    \/ GeneralMuMap_call
    \/ AdditiveMuMap_call
    \/ Binomial_generate_pheno
    \/ Normal_generate_pheno
    \/ get_pheno_generator_call
    \/ get_model_and_params_call

SpecProspective == InitProspective /\ [][NextProspective]_vars

\* ------------------------------------------------------------------ claims
\* Bayes' rule as the specification states it: the joint frequencies weighted
\* by the penetrance for cases and by its complement for controls.
BayesWeights(table, pen, label) ==
    [i \in 1..Len(table) |-> table[i] * (IF label = 1 THEN pen[i] ELSE Unit - pen[i])]

\* The fraction vector p is the posterior of the label.
IsPosterior(p, table, pen, label) ==
    LET w == BayesWeights(table, pen, label)
    IN /\ Len(p.num) = Len(w)
       /\ \A i \in 1..Len(w) : p.num[i] * SeqSum(w) = w[i] * p.den

\* C1: BinomialModel.joint_prob returns, for label 1, the joint frequencies
\* times the penetrance, normalised, and for label 0 the joint frequencies
\* times the complement of the penetrance, normalised.
C1_JointProbIsBayes ==
    (result.op = "BinomialModel.joint_prob"
       /\ SeqSum(BayesWeights(result.args[1], result.args[2], result.args[3])) > 0)
    => /\ result.kind = "value"
       /\ IsPosterior(result.val, result.args[1], result.args[2], result.args[3])

\* C2: every individual of BinomialModel.generate_genotype is drawn from the
\* posterior of its own label, and the two returned sequences are as long as
\* the phenotype sequence and hold at position k what was drawn for k.
C2_DrawnFromOwnLabel ==
    (result.op = "BinomialModel.generate_genotype" /\ result.kind = "value")
    => /\ Len(result.val[1]) = Len(phenotype)
       /\ Len(result.val[2]) = Len(phenotype)
       /\ Len(handed) = Len(phenotype)
       /\ \A k \in 1..Len(phenotype) :
             /\ handed[k].pheno = phenotype[k]
             /\ IsPosterior(handed[k].vec, handed[k].table, penetrance, phenotype[k])
             /\ result.val[1][k] = handed[k].snp[1]
             /\ result.val[2][k] = handed[k].snp[2]

\* C3: BinomialModel.generate_phenotype returns num_cases ones followed by
\* num_controls zeros and makes no call on the random source.
C3_CasesThenControls ==
    (pc = "idle" /\ result.op = "BinomialModel.generate_phenotype")
    => /\ result.kind = "value"
       /\ Len(result.val) = fixed_params.sample_size[1] + fixed_params.sample_size[2]
       /\ \A i \in 1..Len(result.val) :
             result.val[i] = (IF i <= fixed_params.sample_size[1] THEN 1 ELSE 0)
       /\ rand_draws = 0

C3_Witness ==
    /\ pc = "idle"
    /\ result.op = "BinomialModel.generate_phenotype"
    /\ fixed_params.sample_size = <<3, 2>>
    /\ result.val = <<1, 1, 1, 0, 0>>

\* The generator call the state records was given a genotype pair its mean
\* map reports as undefined.
UndefinedMean ==
    \/ /\ result.op = "BinomialPhenoGenerator.generate_pheno"
       /\ MuMap_map(result.args[1], result.args[2]).kind = "none"
    \/ /\ result.op = "NormalPhenoGenerator.generate_pheno"
       /\ MuMap_map(result.args[1], result.args[3]).kind = "none"

\* C4: when the mean map reports undefined, generate_pheno of either
\* generator returns undefined: no error, no phenotype value.
C4_UndefinedPropagates == UndefinedMean => result.kind = "none"

\* C5: both factories give the binary model or generator for "binomial", the
\* continuous one for "normal", and fail with an error, returning nothing,
\* for every other key.
C5_FactoryDispatch ==
    /\ result.op = "get_pheno_generator" =>
          CASE result.args[1] = "binomial" ->
                  /\ result.kind = "value"
                  /\ result.val.class = "BinomialPhenoGenerator"
                  /\ result.val.mu_map = result.args[2]
            [] result.args[1] = "normal" ->
                  /\ result.kind = "value"
                  /\ result.val.class = "NormalPhenoGenerator"
                  /\ result.val.mu_map = result.args[2]
                  /\ result.val.dispersion = result.args[3]
            [] OTHER -> result.kind = "raise" /\ result.val = "ValueError"
    /\ result.op = "get_model_and_params" =>
          CASE result.args[1] = "binomial" ->
                  /\ result.kind = "value"
                  /\ result.val[1].class = "BinomialModel"
                  /\ result.val[2].class = "BinomialParams"
            [] result.args[1] = "normal" ->
                  /\ result.kind = "value"
                  /\ result.val[1].class = "NormalModel"
                  /\ result.val[2].class = "NormalParams"
            [] OTHER -> result.kind = "raise" /\ result.val = "ValueError"

C5_Witness ==
    /\ result.op = "get_pheno_generator"
    /\ result.args[1] = "poisson"
    /\ result.kind = "raise"

\* C6: a mean map reports malformed input as undefined and does not raise:
\* the lookup map for an input holding the sentinel 3 or not of length 2, the
\* additive map for an input holding 3 or not as long as the coefficients;
\* the lookup map returns entry 3 * snp1 + snp2 for a pair of states in 0..2.
C6_MalformedIsUndefined ==
    /\ result.op = "GeneralMuMap.map" =>
          LET mu == result.args[1]
              v == result.args[2]
          IN /\ (Contains(v, 3) \/ Len(v) # 2) => result.kind = "none"
             /\ (Len(v) = 2 /\ v[1] \in 0..2 /\ v[2] \in 0..2) =>
                   (result.kind = "value" /\ result.val = mu[3 * v[1] + v[2] + 1])
    /\ result.op = "AdditiveMuMap.map" =>
          LET beta == result.args[2]
              v == result.args[4]
          IN (Contains(v, 3) \/ Len(v) # Len(beta)) => result.kind = "none"

C6_Witness ==
    /\ result.op = "GeneralMuMap.map"
    /\ result.args[2] = <<2, 1>>
    /\ result.kind = "value"
    /\ result.val = MuTable[8]

\* C7: for an input without the sentinel and as long as the coefficients,
\* AdditiveMuMap.map returns link(intercept + sum of state * coefficient).
C7_AdditiveValue ==
    LET intercept == result.args[1]
        beta == result.args[2]
        v == result.args[4]
    IN (result.op = "AdditiveMuMap.map" /\ ~Contains(v, 3) /\ Len(v) = Len(beta))
       => /\ result.kind = "value"
          /\ result.val = ApplyLink(get_link(result.args[3]),
                                    intercept + SeqSum(ZipProd(v, beta)))

\* C8: NormalModel.joint_prob completes with nine entries, entry i the joint
\* frequency of state i times the Gaussian density of the phenotype value
\* under (mean_i, std_i), divided by the sum of the nine.
C8_NormalPosterior ==
    result.op = "NormalModel.joint_prob"
    => /\ result.kind = "value"
       /\ Len(result.val) = 9
       /\ \A i \in 1..9 :
             result.val[i] =
                <<"div",
                  <<"mul", GaussianDensity(result.args[4], result.args[1][i],
                                           result.args[2][i]),
                    result.args[3][i]>>,
                  "geno_denom">>

\* C9: num_samples is num_cases + num_controls, and that many values come
\* back from NormalModel.generate_phenotype.
C9_TotalSampleCount ==
    (result.op = "NormalModel.generate_phenotype" /\ result.kind = "value")
    => /\ num_samples(fixed_params) = num_cases(fixed_params) + num_controls(fixed_params)
       /\ Len(result.val) = fixed_params.sample_size[1] + fixed_params.sample_size[2]

\* A generate_genotype call is running or was the last call to finish.
InGenerateGenotype ==
    \/ pc = "loop"
    \/ result.op \in {"BinomialModel.generate_genotype", "NormalModel.generate_genotype"}

====
